---- MODULE Spec2Model ----
(***************************************************************************)
(* PPOCatalog (rllib/algorithms/ppo/ppo_catalog.py): the constructor that  *)
(* validates the spaces and assembles the actor-critic encoder config and  *)
(* the two head configs, and the four build_* methods.                     *)
(*                                                                         *)
(* Python objects are modelled by reference: `self` maps attribute names   *)
(* to values, config objects live in `heap` under a reference, so that two *)
(* attributes holding the same object see each other's writes.  Python     *)
(* sequences are 0-based, TLA+ ones 1-based: shape[0] is shape[1] here.    *)
(***************************************************************************)
EXTENDS Integers, Sequences, FiniteSets, TLC

VARIABLES
    phase,          \* "new" | "constructed" | "failed": where __init__ ended
    self,           \* the instance: attribute name -> value (a reference for configs)
    heap,           \* reference -> config object
    frame,          \* the locals of __init__ when it returned or raised
    error,          \* the exception __init__ raised, NoError if none
    generic,        \* history: the encoder config as the superclass computed it
    returned        \* the outcome of the latest build_* call

vars == <<phase, self, heap, frame, error, generic, returned>>

----------------------------------------------------------------------------
(* Bounds and input domains *)

MaxDim == 3

Dims == 1..MaxDim

\* Python values a config option may hold (absent keys read as None by .get).
PyNone == [ty |-> "NoneType", b |-> FALSE, i |-> 0]
PyBool(b) == [ty |-> "bool", b |-> b, i |-> 0]
PyInt(i) == [ty |-> "int", b |-> FALSE, i |-> i]

FreeLogStdValues == {PyNone, PyBool(FALSE), PyBool(TRUE), PyInt(0), PyInt(1)}

\* gym spaces: Box of rank 0, 1 or 2, Discrete(n), and one unsupported kind.
BoxShapes == {<<>>} \cup {<<d>> : d \in Dims} \cup {<<d, e>> : d \in Dims, e \in Dims}
Box(shape) == [kind |-> "Box", shape |-> shape, n |-> 0]
Discrete(n) == [kind |-> "Discrete", shape |-> <<>>, n |-> n]
MultiBinary(n) == [kind |-> "MultiBinary", shape |-> <<n>>, n |-> n]

Spaces == {Box(s) : s \in BoxShapes} \cup {Discrete(n) : n \in Dims}
              \cup {MultiBinary(1)}

PostFcnetHiddens == {<<>>, <<MaxDim>>, <<1, MaxDim>>}
Activations == {"relu", "tanh"}

ModelConfigDicts ==
    [free_log_std : FreeLogStdValues,
     vf_share_layers : BOOLEAN,
     post_fcnet_hiddens : PostFcnetHiddens,
     post_fcnet_activation : Activations]

\* What the generic superclass construction may have computed for the encoder.
GenericEncoderConfigs == [input_dim : Dims, output_dim : Dims]

Frameworks == {"torch", "tf"}
FrameworkArgs == Frameworks \cup {"jax"}

----------------------------------------------------------------------------
(* Exceptions *)

NoError == [type |-> "", msg |-> ""]
AssertionError(msg) == [type |-> "AssertionError", msg |-> msg]
IndexError == [type |-> "IndexError", msg |-> "tuple index out of range"]
NotImplementedError == [type |-> "NotImplementedError",
                        msg |-> "Use PPOCatalog.build_actor_critic_encoder() instead."]

FreeLogStdError == AssertionError("free_log_std not supported yet.")
ObsTypeError ==
    AssertionError("This simple PPO Module only supports Box observation space.")
ObsRankError ==
    AssertionError("This simple PPO Module only supports 1D observation spaces.")
\* The assert's message is a one-element tuple; this is how it prints.
ActionSpaceError ==
    AssertionError("('This simple PPO Module only supports Discrete and Box action spaces.',)")

----------------------------------------------------------------------------
(* Catalog (superclass) and the config objects' build(), which this file   *)
(* only calls                                                              *)

NoObject == [self |-> <<>>, heap |-> <<>>]

\* Catalog.__init__: stores the arguments and a generically computed base
\* encoder config on the instance.
Catalog_init(observation_space, action_space, model_config_dict, generic_encoder) ==
    [self |-> [observation_space |-> observation_space,
               action_space |-> action_space,
               model_config_dict |-> model_config_dict,
               encoder_config |-> "EncoderConfig"],
     heap |-> ("EncoderConfig" :> generic_encoder)]

\* MLPHeadConfig.build(framework): a new module from the config's fields.
MLPHeadConfig_build(h, ref, framework) ==
    [framework |-> framework, config |-> h[ref]]

\* ActorCriticEncoderConfig.build(framework): a new module from the wrapped
\* base encoder config and the shared flag.
ActorCriticEncoderConfig_build(h, ref, framework) ==
    [framework |-> framework,
     config |-> [base_encoder_config |-> h[h[ref].base_encoder_config],
                 shared |-> h[ref].shared]]

NoModule == [framework |-> "", config |-> [none |-> TRUE]]
NoCall == [method |-> "", framework |-> "", raised |-> NoError, module |-> NoModule]

----------------------------------------------------------------------------
(* PPOCatalog.__init__ *)

\* Python's truth value of a config option (`not free_log_std`).
Truthy(v) ==
    CASE v.ty = "NoneType" -> FALSE
      [] v.ty = "bool" -> v.b
      [] v.ty = "int" -> v.i # 0

\* int(x) of an integral x (Discrete.n, shape[0] * 2) keeps its value.
int(x) == x

ValidationError_NoFreeLogStd(free_log_std, observation_space, action_space) ==
    IF observation_space.kind # "Box" THEN ObsTypeError
    ELSE IF Len(observation_space.shape) \notin {1} THEN ObsRankError
    ELSE IF action_space.kind \notin {"Discrete", "Box"} THEN ActionSpaceError
    ELSE NoError

ValidationError_NoActionCheck(free_log_std, observation_space, action_space) ==
    IF Truthy(free_log_std) THEN FreeLogStdError
    ELSE IF observation_space.kind # "Box" THEN ObsTypeError
    ELSE IF Len(observation_space.shape) \notin {1} THEN ObsRankError
    ELSE NoError

\* The four asserts, in order: the first that fails decides the error.
ValidationError(free_log_std, observation_space, action_space) ==
    IF Truthy(free_log_std) THEN FreeLogStdError
    ELSE IF observation_space.kind # "Box" THEN ObsTypeError
    ELSE IF Len(observation_space.shape) \notin {1} THEN ObsRankError
    ELSE IF action_space.kind \notin {"Discrete", "Box"} THEN ActionSpaceError
    ELSE NoError

ActorCriticEncoderConfig_Copy(st) ==
    [self |-> st.self @@ [actor_critic_encoder_config |-> "ActorCriticEncoderConfig"],
     heap |-> st.heap
        @@ ("EncoderConfigCopy" :> st.heap[st.self.encoder_config])
        @@ ("ActorCriticEncoderConfig" :>
              [base_encoder_config |-> "EncoderConfigCopy",
               shared |-> st.self.model_config_dict.vf_share_layers])]

ActorCriticEncoderConfig_AlwaysShared(st) ==
    [self |-> st.self @@ [actor_critic_encoder_config |-> "ActorCriticEncoderConfig"],
     heap |-> st.heap @@ ("ActorCriticEncoderConfig" :>
                [base_encoder_config |-> st.self.encoder_config,
                 shared |-> TRUE])]

\* self.actor_critic_encoder_config = ActorCriticEncoderConfig(
\*     base_encoder_config=self.encoder_config, shared=...["vf_share_layers"])
\* The wrapper holds the base encoder config object itself, not a copy.
ActorCriticEncoderConfig(st) ==
    [self |-> st.self @@ [actor_critic_encoder_config |-> "ActorCriticEncoderConfig"],
     heap |-> st.heap @@ ("ActorCriticEncoderConfig" :>
                [base_encoder_config |-> st.self.encoder_config,
                 shared |-> st.self.model_config_dict.vf_share_layers])]

\* action_space.shape[0] raises IndexError on a Box of rank 0.
PiOutputDimRaises(action_space) ==
    action_space.kind # "Discrete" /\ Len(action_space.shape) = 0

pi_output_dim_NoDouble(action_space) ==
    IF action_space.kind = "Discrete" THEN action_space.n
    ELSE action_space.shape[1]

\* pi_output_dim as passed to the policy head's constructor.
pi_output_dim(action_space) ==
    IF action_space.kind = "Discrete" THEN action_space.n
    ELSE action_space.shape[1] * 2

MLPHeadConfigs_VfNoHiddens(st, pi_dim) ==
    LET cfg == st.self.model_config_dict
        enc == st.heap[st.self.encoder_config]
        head(out, hiddens) ==
            [input_dim |-> enc.output_dim,
             hidden_layer_dims |-> hiddens,
             hidden_layer_activation |-> cfg.post_fcnet_activation,
             output_activation |-> "linear",
             output_dim |-> out]
    IN  [self |-> st.self @@ [pi_head_config |-> "PiHeadConfig",
                              vf_head_config |-> "VfHeadConfig"],
         heap |-> st.heap @@ ("PiHeadConfig" :> head(pi_dim, cfg.post_fcnet_hiddens))
                          @@ ("VfHeadConfig" :> head(1, <<>>))]

\* self.pi_head_config = MLPHeadConfig(...); self.vf_head_config = MLPHeadConfig(...)
MLPHeadConfigs(st, pi_dim) ==
    LET cfg == st.self.model_config_dict
        enc == st.heap[st.self.encoder_config]
        head(out) ==
            [input_dim |-> enc.output_dim,
             hidden_layer_dims |-> cfg.post_fcnet_hiddens,
             hidden_layer_activation |-> cfg.post_fcnet_activation,
             output_activation |-> "linear",
             output_dim |-> out]
    IN  [self |-> st.self @@ [pi_head_config |-> "PiHeadConfig",
                              vf_head_config |-> "VfHeadConfig"],
         heap |-> st.heap @@ ("PiHeadConfig" :> head(pi_dim))
                          @@ ("VfHeadConfig" :> head(1))]

\* A write to one field of the object a reference names.
SetField(h, ref, fld, val) == [h EXCEPT ![ref] = [@ EXCEPT ![fld] = val]]

PatchDimensions_PiNoDouble(st, observation_space, action_space) ==
    LET enc == st.self.encoder_config
        pi == st.self.pi_head_config
        vf == st.self.vf_head_config
        h1 == SetField(st.heap, enc, "input_dim", observation_space.shape[1])
        h2 == SetField(h1, pi, "input_dim", h1[enc].output_dim)
        h3 == SetField(h2, pi, "output_dim",
                  IF action_space.kind = "Discrete" THEN int(action_space.n)
                  ELSE int(action_space.shape[1]))
        h4 == SetField(h3, vf, "output_dim", 1)
    IN  [self |-> st.self, heap |-> h4]

PatchDimensions_VfLikePi(st, observation_space, action_space) ==
    LET enc == st.self.encoder_config
        pi == st.self.pi_head_config
        vf == st.self.vf_head_config
        h1 == SetField(st.heap, enc, "input_dim", observation_space.shape[1])
        h2 == SetField(h1, pi, "input_dim", h1[enc].output_dim)
        h3 == SetField(h2, pi, "output_dim",
                  IF action_space.kind = "Discrete" THEN int(action_space.n)
                  ELSE int(action_space.shape[1] * 2))
        h4 == SetField(h3, vf, "output_dim", h3[pi].output_dim)
    IN  [self |-> st.self, heap |-> h4]

\* "Set input- and output dimensions to fit PPO's needs": the second pass
\* that force-writes the dimensions on the assembled configs.
PatchDimensions(st, observation_space, action_space) ==
    LET enc == st.self.encoder_config
        pi == st.self.pi_head_config
        vf == st.self.vf_head_config
        h1 == SetField(st.heap, enc, "input_dim", observation_space.shape[1])
        h2 == SetField(h1, pi, "input_dim", h1[enc].output_dim)
        h3 == SetField(h2, pi, "output_dim",
                  IF action_space.kind = "Discrete" THEN int(action_space.n)
                  ELSE int(action_space.shape[1] * 2))
        h4 == SetField(h3, vf, "output_dim", 1)
    IN  [self |-> st.self, heap |-> h4]

\* How __init__ ended: the instance as written so far, the locals, the error.
Outcome(ph, st, fr, err) ==
    [phase |-> ph, self |-> st.self, heap |-> st.heap, frame |-> fr, error |-> err]

PPOCatalog_init_LateValidation(observation_space, action_space, model_config_dict, generic_encoder) ==
    LET s1 == Catalog_init(observation_space, action_space, model_config_dict,
                           generic_encoder)
        free_log_std == model_config_dict.free_log_std
        err == ValidationError(free_log_std, observation_space, action_space)
        f1 == [free_log_std |-> free_log_std]
        s2 == ActorCriticEncoderConfig(s1)
        pi_dim == pi_output_dim(action_space)
        f2 == f1 @@ [pi_output_dim |-> pi_dim,
                     post_fcnet_hiddens |-> s1.self.model_config_dict.post_fcnet_hiddens,
                     post_fcnet_activation |->
                         s1.self.model_config_dict.post_fcnet_activation]
        s3 == MLPHeadConfigs(s2, pi_dim)
        s4 == PatchDimensions(s3, observation_space, action_space)
    IN  IF err # NoError THEN Outcome("failed", s2, f1, err)
        ELSE IF PiOutputDimRaises(action_space)
             THEN Outcome("failed", s2, f1, IndexError)
             ELSE Outcome("constructed", s4, f2, NoError)

\* The constructor's body, statement by statement: the superclass's
\* construction, the asserts, the three configs, the dimension patch.
PPOCatalog_init(observation_space, action_space, model_config_dict, generic_encoder) ==
    LET s1 == Catalog_init(observation_space, action_space, model_config_dict,
                           generic_encoder)
        free_log_std == model_config_dict.free_log_std
        err == ValidationError(free_log_std, observation_space, action_space)
        f1 == [free_log_std |-> free_log_std]
        s2 == ActorCriticEncoderConfig(s1)
        pi_dim == pi_output_dim(action_space)
        f2 == f1 @@ [pi_output_dim |-> pi_dim,
                     post_fcnet_hiddens |-> s1.self.model_config_dict.post_fcnet_hiddens,
                     post_fcnet_activation |->
                         s1.self.model_config_dict.post_fcnet_activation]
        s3 == MLPHeadConfigs(s2, pi_dim)
        s4 == PatchDimensions(s3, observation_space, action_space)
    IN  IF err # NoError THEN Outcome("failed", s1, f1, err)
        ELSE IF PiOutputDimRaises(action_space)
             THEN Outcome("failed", s2, f1, IndexError)
             ELSE Outcome("constructed", s4, f2, NoError)

NoGeneric == [input_dim |-> 0, output_dim |-> 0]

Init ==
    /\ phase = "new"
    /\ self = NoObject.self
    /\ heap = NoObject.heap
    /\ frame = <<>>
    /\ error = NoError
    /\ generic = NoGeneric
    /\ returned = NoCall

__init__(observation_space, action_space, model_config_dict, generic_encoder) ==
    /\ phase = "new"
    /\ LET o == PPOCatalog_init(observation_space, action_space, model_config_dict,
                                generic_encoder)
       IN  /\ phase' = o.phase
           /\ self' = o.self
           /\ heap' = o.heap
           /\ frame' = o.frame
           /\ error' = o.error
    /\ generic' = generic_encoder
    /\ UNCHANGED returned

----------------------------------------------------------------------------
(* The build_* methods; only a constructed instance reaches a caller *)

Return(method, framework, module) ==
    [method |-> method, framework |-> framework, raised |-> NoError,
     module |-> module]

Raise(method, framework, err) ==
    [method |-> method, framework |-> framework, raised |-> err,
     module |-> NoModule]

build_actor_critic_encoder(framework) ==
    /\ phase = "constructed"
    /\ returned' = Return("build_actor_critic_encoder", framework,
            ActorCriticEncoderConfig_build(heap, self.actor_critic_encoder_config,
                                           framework))
    /\ UNCHANGED <<phase, self, heap, frame, error, generic>>

build_encoder_FromSuper(framework) ==
    /\ phase = "constructed"
    /\ returned' = Return("build_encoder", framework,
            [framework |-> framework, config |-> heap[self.encoder_config]])
    /\ UNCHANGED <<phase, self, heap, frame, error, generic>>

build_encoder(framework) ==
    /\ phase = "constructed"
    /\ returned' = Raise("build_encoder", framework, NotImplementedError)
    /\ UNCHANGED <<phase, self, heap, frame, error, generic>>

build_pi_head_Memo(framework) ==
    /\ phase = "constructed"
    /\ LET module == IF "_pi_head" \in DOMAIN self THEN self._pi_head
                     ELSE MLPHeadConfig_build(heap, self.pi_head_config, framework)
       IN  /\ returned' = Return("build_pi_head", framework, module)
           /\ self' = [a \in DOMAIN self \cup {"_pi_head"} |->
                          IF a = "_pi_head" THEN module ELSE self[a]]
    /\ UNCHANGED <<phase, heap, frame, error, generic>>

build_pi_head(framework) ==
    /\ phase = "constructed"
    /\ returned' = Return("build_pi_head", framework,
            MLPHeadConfig_build(heap, self.pi_head_config, framework))
    /\ UNCHANGED <<phase, self, heap, frame, error, generic>>

build_vf_head(framework) ==
    /\ phase = "constructed"
    /\ returned' = Return("build_vf_head", framework,
            MLPHeadConfig_build(heap, self.vf_head_config, framework))
    /\ UNCHANGED <<phase, self, heap, frame, error, generic>>

Next ==
    \/ /\ phase = "new"
       /\ \E observation_space \in Spaces, action_space \in Spaces,
             model_config_dict \in ModelConfigDicts,
             generic_encoder \in GenericEncoderConfigs :
               __init__(observation_space, action_space, model_config_dict,
                        generic_encoder)
    \/ \E framework \in Frameworks : build_actor_critic_encoder(framework)
    \/ \E framework \in FrameworkArgs : build_encoder(framework)
    \/ \E framework \in Frameworks : build_pi_head(framework)
    \/ \E framework \in Frameworks : build_vf_head(framework)

Spec == Init /\ [][Next]_vars

----------------------------------------------------------------------------
(* Properties *)

Constructed == phase = "constructed"
ValidationFailed == phase = "failed" /\ error.type = "AssertionError"
SpaceErrors == {ObsTypeError, ObsRankError, ActionSpaceError}
SuperAttrs == {"observation_space", "action_space", "model_config_dict",
               "encoder_config"}
SubConfigAttrs == {"actor_critic_encoder_config", "pi_head_config", "vf_head_config"}

SupportedObs(space) == space.kind = "Box" /\ Len(space.shape) = 1
SupportedAct(space) == space.kind \in {"Discrete", "Box"}

\* C1: a truthy free_log_std always ends construction with the
\* unsupported-feature error, whatever the spaces and the other options, and
\* the failed instance carries none of the three sub-configs.
C1_FreeLogStdRejected ==
    (phase # "new" /\ Truthy(self.model_config_dict.free_log_std))
        => /\ phase = "failed"
           /\ error = FreeLogStdError
           /\ DOMAIN self \cap SubConfigAttrs = {}

C1_Witness ==
    /\ phase = "failed"
    /\ self.model_config_dict.free_log_std = PyInt(1)
    /\ self.observation_space = Box(<<2>>)
    /\ self.action_space = Discrete(2)
    /\ error = FreeLogStdError

\* C2 as stated: an unsupported space always fails with the unsupported-space
\* error, and with free_log_std falsy only supported spaces pass validation.
C2_Original ==
    phase # "new" =>
        /\ (~SupportedObs(self.observation_space) \/ ~SupportedAct(self.action_space))
              => (phase = "failed" /\ error \in SpaceErrors)
        /\ (~Truthy(self.model_config_dict.free_log_std)
                /\ error.type # "AssertionError")
              => (SupportedObs(self.observation_space)
                    /\ SupportedAct(self.action_space))

\* C2 amended: an unsupported space always fails construction; the error is
\* the unsupported-space error when free_log_std is falsy and the
\* unsupported-feature error, asserted first, when it is truthy.  With
\* free_log_std falsy only a rank-1 Box observation space with a Discrete or
\* Box action space passes validation.
C2_SpacesRejected ==
    phase # "new" =>
        /\ (~SupportedObs(self.observation_space) \/ ~SupportedAct(self.action_space))
              => /\ phase = "failed"
                 /\ IF Truthy(self.model_config_dict.free_log_std)
                    THEN error = FreeLogStdError
                    ELSE error \in SpaceErrors
        /\ (~Truthy(self.model_config_dict.free_log_std)
                /\ error.type # "AssertionError")
              => (SupportedObs(self.observation_space)
                    /\ SupportedAct(self.action_space))

C2_Witness ==
    /\ phase = "failed"
    /\ self.observation_space = Box(<<2, 2>>)
    /\ self.action_space = Discrete(2)
    /\ self.model_config_dict.free_log_std = PyBool(FALSE)
    /\ error = ObsRankError

\* C3: build_encoder never returns a module: every call, with any framework
\* argument and after any earlier calls, raises NotImplementedError.
C3_BuildEncoderRaises ==
    returned.method = "build_encoder"
        => (returned.raised = NotImplementedError /\ returned.module = NoModule)

C3_Witness ==
    /\ Constructed
    /\ returned.method = "build_encoder"
    /\ returned.framework = "torch"
    /\ returned.raised = NotImplementedError

\* C4: after construction the policy head's output_dim is n for Discrete(n)
\* and 2 * shape[0] for a Box, both as passed to the head's constructor and
\* as written by the dimension patch.
C4_PiOutputDim ==
    Constructed =>
        LET a == self.action_space
            want == IF a.kind = "Discrete" THEN a.n ELSE 2 * a.shape[1]
        IN  /\ heap[self.pi_head_config].output_dim = want
            /\ frame.pi_output_dim = want

C4_Witness ==
    /\ Constructed
    /\ self.action_space = Box(<<2>>)
    /\ heap[self.pi_head_config].output_dim = 4

\* C5: after construction the value head's output_dim is 1 whatever the
\* inputs, and build_* calls leave it 1.
C5_VfOutputDimIsOne ==
    Constructed => heap[self.vf_head_config].output_dim = 1

C5_Witness ==
    /\ Constructed
    /\ returned.method = "build_vf_head"
    /\ heap[self.pi_head_config].output_dim = 2 * MaxDim
    /\ heap[self.vf_head_config].output_dim = 1

\* C6: after construction with a rank-1 Box observation space of dimension
\* d the encoder config's input_dim is d, whatever the superclass computed,
\* and so is that of the base config the actor-critic encoder config wraps
\* and builds from.
C6_EncoderInputDim ==
    Constructed =>
        LET d == self.observation_space.shape[1]
            ac == heap[self.actor_critic_encoder_config]
        IN  /\ heap[self.encoder_config].input_dim = d
            /\ heap[ac.base_encoder_config].input_dim = d
            /\ returned.method = "build_actor_critic_encoder"
                  => returned.module.config.base_encoder_config.input_dim = d

C6_Witness ==
    /\ Constructed
    /\ generic.input_dim # self.observation_space.shape[1]
    /\ returned.method = "build_actor_critic_encoder"
    /\ returned.module.config.base_encoder_config.input_dim
          = self.observation_space.shape[1]

\* C7: after construction the actor-critic encoder config's shared flag is
\* the vf_share_layers option, whatever the spaces and the other options.
C7_SharedIsVfShareLayers ==
    Constructed =>
        heap[self.actor_critic_encoder_config].shared
            = self.model_config_dict.vf_share_layers

C7_Witness ==
    /\ Constructed
    /\ self.model_config_dict.vf_share_layers = FALSE
    /\ heap[self.actor_critic_encoder_config].shared = FALSE
    /\ self.observation_space = Box(<<MaxDim>>)
    /\ self.action_space = Box(<<2>>)

\* C8: after construction both heads take the base encoder's output_dim as
\* input_dim, the configured hidden layers and activation, a linear output
\* activation, and differ in nothing but output_dim.
C8_HeadConfigs ==
    Constructed =>
        LET pi == heap[self.pi_head_config]
            vf == heap[self.vf_head_config]
            cfg == self.model_config_dict
        IN  /\ \A head \in {pi, vf} :
                  /\ head.input_dim = heap[self.encoder_config].output_dim
                  /\ head.hidden_layer_dims = cfg.post_fcnet_hiddens
                  /\ head.hidden_layer_activation = cfg.post_fcnet_activation
                  /\ head.output_activation = "linear"
            /\ [pi EXCEPT !.output_dim = vf.output_dim] = vf

C8_Witness ==
    /\ Constructed
    /\ self.model_config_dict.post_fcnet_hiddens = <<1, MaxDim>>
    /\ heap[self.vf_head_config].hidden_layer_dims = <<1, MaxDim>>
    /\ heap[self.pi_head_config].output_dim # heap[self.vf_head_config].output_dim
    /\ generic.output_dim # generic.input_dim

\* What each build_* call returns, from the configs and the framework alone.
ResultFromConfig ==
    /\ returned.method = "build_actor_critic_encoder"
          => returned.module = ActorCriticEncoderConfig_build(
                heap, self.actor_critic_encoder_config, returned.framework)
    /\ returned.method = "build_pi_head"
          => returned.module = MLPHeadConfig_build(
                heap, self.pi_head_config, returned.framework)
    /\ returned.method = "build_vf_head"
          => returned.module = MLPHeadConfig_build(
                heap, self.vf_head_config, returned.framework)

\* C9: once constructed, no step changes the instance or any config object,
\* and every build result is the one the construction-time configs and the
\* framework argument give.
C9_NoMutationAfterInit ==
    /\ [][Constructed => (self' = self /\ heap' = heap)]_vars
    /\ []ResultFromConfig

C9_Witness ==
    /\ Constructed
    /\ returned.method = "build_pi_head"
    /\ returned.framework = "tf"
    /\ returned.module.config = heap[self.pi_head_config]

\* C10 as stated: a validation failure leaves nothing written, the
\* superclass's construction included.
C10_Original ==
    ValidationFailed => (DOMAIN self = {} /\ DOMAIN heap = {})

\* C10 amended: a validation failure aborts before any sub-config is
\* assembled and before any dimension is patched; the superclass's generic
\* construction, which runs first, has written its attributes and the base
\* encoder config, and these are as it left them.
C10_FailsBeforeAssembly ==
    ValidationFailed =>
        /\ DOMAIN self = SuperAttrs
        /\ DOMAIN heap = {self.encoder_config}
        /\ heap[self.encoder_config] = generic

C10_Witness ==
    /\ ValidationFailed
    /\ error = ActionSpaceError
    /\ "encoder_config" \in DOMAIN self
    /\ "actor_critic_encoder_config" \notin DOMAIN self

====
